---- MODULE Spec2Model ----
(***************************************************************************)
(* unit-tests/test-fw-updater.py: the firmware-update script.              *)
(*                                                                         *)
(* A Python string is modelled as a sequence of one-character strings, so  *)
(* that splitting, slicing, containment and regular-expression search are  *)
(* computed character by character, as the interpreter computes them.      *)
(* A run of the script is a straight line of steps; what each step reads   *)
(* from its environment (the file system, the device, the manifest) is an  *)
(* input drawn when the step reads it.                                     *)
(***************************************************************************)
EXTENDS Integers, Sequences, FiniteSets, TLC

(***************************************************************************)
(* Bounds of the model.                                                    *)
(***************************************************************************)
MaxLines == 2
MaxFiles == 2
MaxDevices == 2
MaxVerLen == 3

(***************************************************************************)
(* Values that are not strings.  A string is a sequence of one-character   *)
(* strings, so none of these tuples equals a string.                       *)
(***************************************************************************)
None == <<"None">>
Unset == <<"unset">>
IndexError == <<"IndexError">>

Min(a, b) == IF a < b THEN a ELSE b

BoundedSeqs(S, n) == UNION {[1..k -> S] : k \in 0..n}

Whitespace == {" ", "\t", "\n"}
Digits == {"0", "1", "2", "3", "4", "5", "6", "7", "8", "9"}

(***************************************************************************)
(* Python string operations.                                               *)
(***************************************************************************)
\* s.split(sep) with a one-character separator: empty pieces are kept.
RECURSIVE str_split(_, _)
str_split(s, sep) ==
    IF \A k \in 1..Len(s) : s[k] # sep
    THEN <<s>>
    ELSE LET k == CHOOSE j \in 1..Len(s) :
                      s[j] = sep /\ \A h \in 1..(j - 1) : s[h] # sep
         IN  <<SubSeq(s, 1, k - 1)>> \o str_split(SubSeq(s, k + 1, Len(s)), sep)

\* s.split(): pieces between runs of whitespace, no empty piece.
RECURSIVE str_split_ws(_)
str_split_ws(s) ==
    IF s = <<>> THEN <<>>
    ELSE IF Head(s) \in Whitespace THEN str_split_ws(Tail(s))
    ELSE LET k == CHOOSE j \in 2..(Len(s) + 1) :
                      /\ (j = Len(s) + 1 \/ s[j] \in Whitespace)
                      /\ \A h \in 2..(j - 1) : s[h] \notin Whitespace
         IN  <<SubSeq(s, 1, k - 1)>> \o str_split_ws(SubSeq(s, k, Len(s)))

\* sub in s
str_contains(sub, s) ==
    \E k \in 0..(Len(s) - Len(sub)) : SubSeq(s, k + 1, k + Len(sub)) = sub

\* s[1:-1]
str_strip_ends(s) == IF Len(s) <= 2 THEN <<>> ELSE SubSeq(s, 2, Len(s) - 1)

\* s.replace( '\\', '/' )
str_unix(s) == [k \in 1..Len(s) |-> IF s[k] = "\\" THEN "/" ELSE s[k]]

\* int(s) is defined on the strings of decimal digits (the inputs of the model
\* hold no sign, blank or underscore); on any other string it raises ValueError.
int_ok(s) == s # <<>> /\ \A k \in 1..Len(s) : s[k] \in Digits

DigitValue(c) ==
    CASE c = "0" -> 0 [] c = "1" -> 1 [] c = "2" -> 2 [] c = "3" -> 3
      [] c = "4" -> 4 [] c = "5" -> 5 [] c = "6" -> 6 [] c = "7" -> 7
      [] c = "8" -> 8 [] c = "9" -> 9

RECURSIVE int(_)
int(s) ==
    IF s = <<>> THEN 0
    ELSE 10 * int(SubSeq(s, 1, Len(s) - 1)) + DigitValue(s[Len(s)])

\* os.path.join( dir, file ) for a relative file
path_join(dir, file) == dir \o <<"/">> \o file

(***************************************************************************)
(* String literals of the script.                                          *)
(***************************************************************************)
S_define == <<"#", "d", "e", "f", "i", "n", "e">>
S_dash_f == <<"-", "f">>
S_rs_fw_update_exe == <<"r", "s", "-", "f", "w", "-", "u", "p", "d", "a", "t", "e", ".", "e", "x", "e">>
S_XX_FW_Image == <<"X", "X", "_", "F", "W", "_", "I", "m", "a", "g", "e", "-">>
S_bin == <<".", "b", "i", "n">>
S_mask_head == <<"(", "^", "|", "/", ")">>
S_mask_tail == <<"$">>

\* librealsense: the directory two levels above the script
librealsense == <<"/", "l", "r", "s">>

(***************************************************************************)
(* filesin and find.  walk is what os.walk produces: the relative paths of *)
(* the files under the root, in traversal order, with the separators of    *)
(* the platform.                                                           *)
(***************************************************************************)
filesin(walk) == [k \in 1..Len(walk) |-> str_unix(walk[k])]

\* The masks of the script have the shape '(^|/)' + body + '$'.  The body is a
\* regular expression too: in the names the script builds, the only character
\* that is not literal is '.', which matches any character but a newline.
\* '$' matches at the end of the string and before a newline that ends it.
re_body(mask) == SubSeq(mask, Len(S_mask_head) + 1, Len(mask) - Len(S_mask_tail))

re_match_at(body, leaf, start) ==
    LET n == Len(leaf) - start + 1
    IN  /\ \/ n = Len(body)
           \/ n = Len(body) + 1 /\ leaf[Len(leaf)] = "\n"
        /\ \A k \in 1..Len(body) :
              IF body[k] = "." THEN leaf[start + k - 1] # "\n"
                               ELSE leaf[start + k - 1] = body[k]

\* pattern.search( leaf )
re_search(mask, leaf) ==
    \E start \in 1..(Len(leaf) + 1) :
        /\ start = 1 \/ leaf[start - 1] = "/"
        /\ re_match_at(re_body(mask), leaf, start)

find(walk, mask) == SelectSeq(filesin(walk), LAMBDA leaf : re_search(mask, leaf))

updater_mask == S_mask_head \o S_rs_fw_update_exe \o S_mask_tail

\* for file in find( ... ): x = os.path.join( librealsense, file )
keep_first(matches) ==
    IF matches = <<>> THEN None ELSE path_join(librealsense, matches[1])

keep_last(matches) ==
    IF matches = <<>> THEN None ELSE path_join(librealsense, matches[Len(matches)])

(***************************************************************************)
(* get_bundled_fw_version.  fw_versions is the sequence of the lines of    *)
(* the manifest.  The result is a string, None, or IndexError when a       *)
(* subscript is out of range.                                              *)
(***************************************************************************)
product_line_3(pl) == SubSeq(pl, 1, Min(3, Len(pl)))

\* product_line[0:2]
product_line_prefix(pl) == SubSeq(pl, 1, Min(2, Len(pl)))

RECURSIVE scan_fw_versions(_, _, _)
scan_fw_versions(fw_versions, pl, k) ==
    IF k > Len(fw_versions) THEN None
    ELSE LET words == str_split_ws(fw_versions[k])
         IN  IF Len(words) = 0 \/ words[1] # S_define
             THEN scan_fw_versions(fw_versions, pl, k + 1)
             ELSE IF Len(words) < 2 THEN IndexError
             ELSE IF str_contains(product_line_prefix(pl), words[2])
                  THEN IF Len(words) < 3 THEN IndexError
                       ELSE str_strip_ends(words[3])
                  ELSE scan_fw_versions(fw_versions, pl, k + 1)

get_bundled_fw_version(fw_versions, pl) == scan_fw_versions(fw_versions, pl, 1)

(***************************************************************************)
(* has_newer_fw.  The result is "True", "False", "SystemExit" (sys.exit(1) *)
(* after the format error is logged) or "ValueError" (int() of a component *)
(* that is no number).                                                     *)
(***************************************************************************)
\* for curr, bundled in zip( current_fw_digits, bundled_fw_digits ): the result
\* of the first pair that decides, "exhausted" when no pair does.
RECURSIVE compare_digits(_, _, _)
compare_digits(current_fw_digits, bundled_fw_digits, k) ==
    IF k > Min(Len(current_fw_digits), Len(bundled_fw_digits)) THEN "exhausted"
    ELSE LET curr == current_fw_digits[k]
             bundled == bundled_fw_digits[k]
         IN  IF ~int_ok(bundled) \/ ~int_ok(curr) THEN "ValueError"
             ELSE IF int(bundled) > int(curr) THEN "True"
             ELSE IF int(bundled) < int(curr) THEN "False"
             ELSE compare_digits(current_fw_digits, bundled_fw_digits, k + 1)

has_newer_fw_or_equal(current_fw, bundled_fw) ==
    LET current_fw_digits == str_split(current_fw, ".")
        bundled_fw_digits == str_split(bundled_fw, ".")
        r == compare_digits(current_fw_digits, bundled_fw_digits, 1)
    IN  IF Len(current_fw_digits) # Len(bundled_fw_digits) THEN "SystemExit"
        ELSE IF r = "exhausted" THEN "True" ELSE r

has_newer_fw_unchecked(current_fw, bundled_fw) ==
    LET r == compare_digits(str_split(current_fw, "."), str_split(bundled_fw, "."), 1)
    IN  IF r = "exhausted" THEN "False" ELSE r

has_newer_fw(current_fw, bundled_fw) ==
    LET current_fw_digits == str_split(current_fw, ".")
        bundled_fw_digits == str_split(bundled_fw, ".")
        r == compare_digits(current_fw_digits, bundled_fw_digits, 1)
    IN  IF Len(current_fw_digits) # Len(bundled_fw_digits) THEN "SystemExit"
        ELSE IF r = "exhausted" THEN "False" ELSE r

\* image_name and image_mask
image_name(pl, bundled_fw) == product_line_prefix(pl) \o S_XX_FW_Image \o bundled_fw \o S_bin

image_mask(pl, bundled_fw) == S_mask_head \o image_name(pl, bundled_fw) \o S_mask_tail

\* subprocess.run([fw_updater_exe, '-f', image_file])
updater_argv_no_flag(exe, image) == <<exe, image>>

updater_argv(exe, image) == <<exe, S_dash_f, image>>

(***************************************************************************)
(* The inputs of a run.                                                    *)
(***************************************************************************)
S_D4XX_FW_VERSION == <<"D", "4", "X", "X", "_", "F", "W", "_", "V", "E", "R", "S", "I", "O", "N">>
S_D4XX_OLD_VERSION == <<"D", "4", "X", "X", "_", "O", "L", "D", "_", "V", "E", "R", "S", "I", "O", "N">>
S_L5XX_FW_VERSION == <<"L", "5", "X", "X", "_", "F", "W", "_", "V", "E", "R", "S", "I", "O", "N">>
S_D4XX_ONLY == <<"D", "4", "X", "X", "_", "O", "N", "L", "Y">>
S_D4XX_EMPTY == <<"D", "4", "X", "X", "_", "E", "M", "P", "T", "Y">>
S_1_20_0 == <<"1", ".", "2", "0", ".", "0">>
S_1_3_0 == <<"1", ".", "3", ".", "0">>
S_1_3 == <<"1", ".", "3">>
S_2_0_0 == <<"2", ".", "0", ".", "0">>
S_9_9_9 == <<"9", ".", "9", ".", "9">>
S_1__0 == <<"1", ".", ".", "0">>
S_D400 == <<"D", "4", "0", "0">>
S_D4ZZ == <<"D", "4", "Z", "Z">>
S_L500 == <<"L", "5", "0", "0">>
S_D4 == <<"D", "4">>
S_not_rs_fw_update_exe == <<"n", "o", "t", "-">> \o S_rs_fw_update_exe
S_rs_fw_updateXexe == <<"r", "s", "-", "f", "w", "-", "u", "p", "d", "a", "t", "e", "X", "e", "x", "e">>
S_img_1_20_0 == <<"D", "4", "X", "X", "_", "F", "W", "_", "I", "m", "a", "g", "e", "-", "1", ".", "2", "0", ".", "0", ".", "b", "i", "n">>
S_img_1x20_0 == <<"D", "4", "X", "X", "_", "F", "W", "_", "I", "m", "a", "g", "e", "-", "1", "x", "2", "0", ".", "0", ".", "b", "i", "n">>

Quoted(s) == <<"\"">> \o s \o <<"\"">>

\* #define <name> "<version>", ended by its newline
DefineLine(name, version) ==
    S_define \o <<" ">> \o name \o <<" ">> \o Quoted(version) \o <<"\n">>

\* The lines a manifest is made of: two entries of the D4 family, one of the L5
\* family, a comment that names the D4 family and quotes a version, a blank
\* line, a #define with nothing after it, a #define of a D4 name with no value,
\* and a #define of a D4 name whose value is the empty string.
ManifestLines ==
    { DefineLine(S_D4XX_FW_VERSION, S_1_20_0),
      DefineLine(S_D4XX_OLD_VERSION, S_1_3_0),
      <<"\t">> \o DefineLine(S_L5XX_FW_VERSION, S_1_3),
      <<"/", "/", " ">> \o S_D4XX_FW_VERSION \o <<" ">> \o Quoted(S_9_9_9) \o <<"\n">>,
      <<"\n">>,
      S_define \o <<"\n">>,
      S_define \o <<" ">> \o S_D4XX_ONLY \o <<"\n">>,
      DefineLine(S_D4XX_EMPTY, <<>>) }

Manifests == BoundedSeqs(ManifestLines, MaxLines)

\* The relative paths os.walk may produce.
WalkedFiles ==
    { S_rs_fw_update_exe,
      <<"f", "o", "o", "/">> \o S_rs_fw_update_exe,
      <<"f", "o", "o", "\\">> \o S_rs_fw_update_exe,
      <<"f", "o", "o", "/">> \o S_not_rs_fw_update_exe,
      S_rs_fw_updateXexe,
      S_img_1_20_0,
      <<"f", "w", "/">> \o S_img_1_20_0,
      S_img_1x20_0 }

\* A walk lists each file once.
Walks ==
    { w \in BoundedSeqs(WalkedFiles, MaxFiles) :
        \A j, k \in 1..Len(w) : j # k => w[j] # w[k] }

DeviceCounts == 0..MaxDevices

\* What the device reports as its firmware version and its product line.
DeviceVersions == {S_1_3_0, S_1_20_0, S_1_3, S_2_0_0, S_1__0}
ProductLines == {S_D400, S_D4ZZ, S_L500, S_D4}

\* The version strings has_newer_fw is compared on: every string of at most
\* MaxVerLen characters of the alphabet, and the two of the documentation.
VerAlphabet == {"0", "1", "2", "."}
VersionStrings == BoundedSeqs(VerAlphabet, MaxVerLen) \cup {S_1_3_0, S_1_20_0}

(***************************************************************************)
(* The state.  Runs of the script that are given the same inputs advance   *)
(* together: a step of the script reads its input once and every run that  *)
(* stands at that step takes it.  Each variable of the script is a         *)
(* function of the run.                                                    *)
(***************************************************************************)
RunIds == {1, 2}

VARIABLES
    runs,                 \* the runs that execute
    env,                  \* what the latest step read from the environment
    pc,                   \* the statement each run is at
    manifest_isfile,      \* what os.path.isfile( fw_versions_file ) answered
    fw_updater_exe,
    sn_list_len,          \* len( sn_list ), -1 before devices.all()
    current_fw_version,
    product_line,
    bundled_fw_version,
    newer,                \* what has_newer_fw returned or raised
    image_file,
    exit_code,            \* the exit status, -1 while the run executes
    outcome,              \* how the run ended
    calls,                \* the argument lists given to subprocess.run
    ops                   \* the steps the run has taken

vars == <<runs, env, pc, manifest_isfile, fw_updater_exe, sn_list_len, current_fw_version, product_line,
          bundled_fw_version, newer, image_file, exit_code, outcome, calls, ops>>

NoEnv == [op |-> "none", isfile |-> FALSE, walk |-> <<>>, n |-> 0,
          fw_versions |-> <<>>, raised |-> FALSE]

ExitCode_no_update_fails(how) ==
    IF how \in {"launched", "unexpected_exception"} THEN 0 ELSE 1

\* The exit status of each way a run ends: sys.exit(0) when no update is needed,
\* the end of the script after subprocess.run, sys.exit(1) after each log.e, and
\* the interpreter's status 1 for an exception nobody catches.
ExitCode(how) ==
    IF how \in {"up_to_date", "launched", "unexpected_exception"} THEN 0 ELSE 1

At(p) == {i \in runs : pc[i] = p}

\* A step of the runs in S: result[i] is "ok" when run i goes on to the
\* statement next, and otherwise how it ends.
Goto(S, result, next) ==
    /\ pc' = [i \in RunIds |->
                IF i \notin S THEN pc[i] ELSE IF result[i] = "ok" THEN next ELSE "done"]
    /\ exit_code' = [i \in RunIds |->
                IF i \notin S \/ result[i] = "ok" THEN exit_code[i] ELSE ExitCode(result[i])]
    /\ outcome' = [i \in RunIds |->
                IF i \notin S \/ result[i] = "ok" THEN outcome[i] ELSE result[i]]

Record(S, op) ==
    ops' = [i \in RunIds |-> IF i \in S THEN Append(ops[i], op) ELSE ops[i]]

InitRuns(R) ==
    /\ runs = R
    /\ env = NoEnv
    /\ pc = [i \in RunIds |-> IF i \in R THEN "check_manifest" ELSE "idle"]
    /\ manifest_isfile = [i \in RunIds |-> "unset"]
    /\ fw_updater_exe = [i \in RunIds |-> Unset]
    /\ sn_list_len = [i \in RunIds |-> -1]
    /\ current_fw_version = [i \in RunIds |-> Unset]
    /\ product_line = [i \in RunIds |-> Unset]
    /\ bundled_fw_version = [i \in RunIds |-> Unset]
    /\ newer = [i \in RunIds |-> "unset"]
    /\ image_file = [i \in RunIds |-> Unset]
    /\ exit_code = [i \in RunIds |-> -1]
    /\ outcome = [i \in RunIds |-> "running"]
    /\ calls = [i \in RunIds |-> <<>>]
    /\ ops = [i \in RunIds |-> <<>>]

Init == InitRuns({1})

\* if not os.path.isfile( fw_versions_file )
CheckManifest ==
    LET S == At("check_manifest")
    IN  /\ S # {}
        /\ \E isfile \in BOOLEAN :
              /\ env' = [NoEnv EXCEPT !.op = "isfile", !.isfile = isfile]
              /\ manifest_isfile' =
                    [i \in RunIds |->
                       IF i \notin S THEN manifest_isfile[i]
                       ELSE IF isfile THEN "True" ELSE "False"]
              /\ Goto(S, [i \in S |-> IF isfile THEN "ok" ELSE "no_manifest"],
                      "find_updater")
        /\ Record(S, "isfile")
        /\ UNCHANGED <<runs, fw_updater_exe, sn_list_len, current_fw_version, product_line,
                       bundled_fw_version, newer, image_file, calls>>

\* fw_updater_exe = None; for file in find( librealsense, mask ): ...
FindUpdater ==
    LET S == At("find_updater")
    IN  /\ S # {}
        /\ \E walk \in Walks :
              LET found == keep_last(find(walk, updater_mask))
              IN  /\ env' = [NoEnv EXCEPT !.op = "find_updater", !.walk = walk]
                  /\ fw_updater_exe' =
                        [i \in RunIds |-> IF i \in S THEN found ELSE fw_updater_exe[i]]
                  /\ Goto(S, [i \in S |-> IF found = None THEN "no_updater" ELSE "ok"],
                          "query_devices")
        /\ Record(S, "find_updater")
        /\ UNCHANGED <<runs, manifest_isfile, sn_list_len, current_fw_version, product_line,
                       bundled_fw_version, newer, image_file, calls>>

\* len( sn_list ) != 1
device_count_error_zero(n) == n = 0

device_count_error(n) == n # 1

\* devices.query(); sn_list = devices.all()
QueryDevices ==
    LET S == At("query_devices")
    IN  /\ S # {}
        /\ \E n \in DeviceCounts :
              /\ env' = [NoEnv EXCEPT !.op = "query_devices", !.n = n]
              /\ sn_list_len' = [i \in RunIds |-> IF i \in S THEN n ELSE sn_list_len[i]]
              /\ Goto(S, [i \in S |-> IF device_count_error(n) THEN "device_count" ELSE "ok"],
                      "get_info")
        /\ Record(S, "query_devices")
        /\ UNCHANGED <<runs, manifest_isfile, fw_updater_exe, current_fw_version, product_line,
                       bundled_fw_version, newer, image_file, calls>>

\* device.get_info( firmware_version ), device.get_info( product_line ): the
\* runs are told the same firmware version, and each its product line.
GetInfo ==
    LET S == At("get_info")
    IN  /\ S # {}
        /\ \E fw \in DeviceVersions, pls \in [S -> ProductLines] :
              /\ current_fw_version' =
                    [i \in RunIds |-> IF i \in S THEN fw ELSE current_fw_version[i]]
              /\ product_line' =
                    [i \in RunIds |-> IF i \in S THEN pls[i] ELSE product_line[i]]
        /\ env' = [NoEnv EXCEPT !.op = "get_info"]
        /\ Goto(S, [i \in S |-> "ok"], "get_bundled")
        /\ Record(S, "get_info")
        /\ UNCHANGED <<runs, manifest_isfile, fw_updater_exe, sn_list_len, bundled_fw_version, newer,
                       image_file, calls>>

\* if not bundled_fw_version
not_bundled(bundled_fw) == bundled_fw = None \/ bundled_fw = <<>>

\* bundled_fw_version = get_bundled_fw_version( product_line )
GetBundled ==
    LET S == At("get_bundled")
    IN  /\ S # {}
        /\ \E fw_versions \in Manifests :
              LET got == [i \in S |-> get_bundled_fw_version(fw_versions, product_line[i])]
              IN  /\ env' = [NoEnv EXCEPT !.op = "get_bundled", !.fw_versions = fw_versions]
                  /\ bundled_fw_version' =
                        [i \in RunIds |->
                           IF i \in S /\ got[i] # IndexError
                           THEN got[i] ELSE bundled_fw_version[i]]
                  /\ Goto(S, [i \in S |->
                                IF got[i] = IndexError THEN "IndexError"
                                ELSE IF not_bundled(got[i]) THEN "no_bundled" ELSE "ok"],
                          "has_newer_fw")
        /\ Record(S, "get_bundled")
        /\ UNCHANGED <<runs, manifest_isfile, fw_updater_exe, sn_list_len, current_fw_version, product_line,
                       newer, image_file, calls>>

\* if not has_newer_fw( current_fw_version, bundled_fw_version )
HasNewerFw ==
    LET S == At("has_newer_fw")
        got == [i \in S |-> has_newer_fw(current_fw_version[i], bundled_fw_version[i])]
    IN  /\ S # {}
        /\ env' = [NoEnv EXCEPT !.op = "has_newer_fw"]
        /\ newer' = [i \in RunIds |-> IF i \in S THEN got[i] ELSE newer[i]]
        /\ Goto(S, [i \in S |->
                      CASE got[i] = "True" -> "ok"
                        [] got[i] = "False" -> "up_to_date"
                        [] got[i] = "SystemExit" -> "format_mismatch"
                        [] got[i] = "ValueError" -> "ValueError"],
                "find_image")
        /\ Record(S, "has_newer_fw")
        /\ UNCHANGED <<runs, manifest_isfile, fw_updater_exe, sn_list_len, current_fw_version,
                       product_line, bundled_fw_version, image_file, calls>>

\* image_file = None; for file in find( librealsense, image_mask ): ...
FindImage ==
    LET S == At("find_image")
    IN  /\ S # {}
        /\ \E walk \in Walks :
              LET found == [i \in S |->
                    keep_last(find(walk, image_mask(product_line[i], bundled_fw_version[i])))]
              IN  /\ env' = [NoEnv EXCEPT !.op = "find_image", !.walk = walk]
                  /\ image_file' =
                        [i \in RunIds |-> IF i \in S THEN found[i] ELSE image_file[i]]
                  /\ Goto(S, [i \in S |-> IF found[i] = None THEN "no_image" ELSE "ok"],
                          "run_updater")
        /\ Record(S, "find_image")
        /\ UNCHANGED <<runs, manifest_isfile, fw_updater_exe, sn_list_len, current_fw_version, product_line,
                       bundled_fw_version, newer, calls>>

\* try: subprocess.run( ... ) except Exception: test.unexpected_exception(),
\* and the script ends.
RunUpdater ==
    LET S == At("run_updater")
    IN  /\ S # {}
        /\ \E raised \in BOOLEAN :
              /\ env' = [NoEnv EXCEPT !.op = "run_updater", !.raised = raised]
              /\ Goto(S, [i \in S |-> IF raised THEN "unexpected_exception" ELSE "launched"],
                      "done")
        /\ calls' = [i \in RunIds |->
                       IF i \in S
                       THEN Append(calls[i], updater_argv(fw_updater_exe[i], image_file[i]))
                       ELSE calls[i]]
        /\ Record(S, "run_updater")
        /\ UNCHANGED <<runs, manifest_isfile, fw_updater_exe, sn_list_len, current_fw_version, product_line,
                       bundled_fw_version, newer, image_file>>

Next ==
    \/ CheckManifest
    \/ FindUpdater
    \/ QueryDevices
    \/ GetInfo
    \/ GetBundled
    \/ HasNewerFw
    \/ FindImage
    \/ RunUpdater

Spec == Init /\ [][Next]_vars

\* Two runs given the same inputs, each told its own product line.
InitPair == InitRuns({1, 2})

SpecPair == InitPair /\ [][Next]_vars

\* has_newer_fw on every pair of version strings: the state of a run that
\* stands at the call, its device reporting current_fw and the manifest's one
\* line giving bundled_fw.
InitCmp ==
    \E current_fw \in VersionStrings, bundled_fw \in VersionStrings \ {<<>>} :
        /\ runs = {1}
        /\ env = [NoEnv EXCEPT !.op = "get_bundled",
                               !.fw_versions = <<DefineLine(S_D4XX_FW_VERSION, bundled_fw)>>]
        /\ pc = [i \in RunIds |-> IF i = 1 THEN "has_newer_fw" ELSE "idle"]
        /\ manifest_isfile = [i \in RunIds |-> IF i = 1 THEN "True" ELSE "unset"]
        /\ fw_updater_exe = [i \in RunIds |->
              IF i = 1 THEN path_join(librealsense, S_rs_fw_update_exe) ELSE Unset]
        /\ sn_list_len = [i \in RunIds |-> IF i = 1 THEN 1 ELSE -1]
        /\ current_fw_version = [i \in RunIds |-> IF i = 1 THEN current_fw ELSE Unset]
        /\ product_line = [i \in RunIds |-> IF i = 1 THEN S_D400 ELSE Unset]
        /\ bundled_fw_version = [i \in RunIds |-> IF i = 1 THEN bundled_fw ELSE Unset]
        /\ newer = [i \in RunIds |-> "unset"]
        /\ image_file = [i \in RunIds |-> Unset]
        /\ exit_code = [i \in RunIds |-> -1]
        /\ outcome = [i \in RunIds |-> "running"]
        /\ calls = [i \in RunIds |-> <<>>]
        /\ ops = [i \in RunIds |->
              IF i = 1
              THEN <<"isfile", "find_updater", "query_devices", "get_info", "get_bundled">>
              ELSE <<>>]

NextCmp == HasNewerFw

SpecCmp == InitCmp /\ [][NextCmp]_vars

(***************************************************************************)
(* Vocabulary of the properties.                                           *)
(***************************************************************************)
Last(q) == q[Len(q)]

\* Run i has just taken the step op.
JustDid(i, op) == env.op = op /\ ops[i] # <<>> /\ Last(ops[i]) = op

IsPath(x) == x # None /\ x # Unset

\* The number of dot-separated components of a version string.
NumComponents(v) == Cardinality({k \in 1..Len(v) : v[k] = "."}) + 1

\* Every component is a decimal integer.
WellFormed(v) == \A k \in 1..NumComponents(v) : int_ok(str_split(v, ".")[k])

\* bundled_fw is greater than current_fw at the first pair of components that
\* differ as integers.
StrictlyNewer(current_fw, bundled_fw) ==
    LET c == str_split(current_fw, ".")
        b == str_split(bundled_fw, ".")
    IN  \E k \in 1..Min(Len(c), Len(b)) :
            /\ \A j \in 1..k : int_ok(c[j]) /\ int_ok(b[j])
            /\ \A j \in 1..(k - 1) : int(b[j]) = int(c[j])
            /\ int(b[k]) > int(c[k])

\* The part of a path after its last '/'.
FinalComponent(path) ==
    LET slashes == {k \in 1..Len(path) : path[k] = "/"}
        from == IF slashes = {} THEN 1
                ELSE (CHOOSE k \in slashes : \A h \in slashes : h <= k) + 1
    IN  SubSeq(path, from, Len(path))

\* The positions of walk whose path, with '/' for separator, the mask finds.
MatchedAt(walk, mask) == {k \in 1..Len(walk) : re_search(mask, str_unix(walk[k]))}

MaxOf(S) == CHOOSE k \in S : \A h \in S : h <= k

\* A line of the manifest that names the family of the product line: its first
\* token is '#define' and its second holds the product line's first two characters.
Qualifies(line, pl) ==
    LET words == str_split_ws(line)
    IN  /\ Len(words) >= 2
        /\ words[1] = S_define
        /\ str_contains(SubSeq(pl, 1, Min(2, Len(pl))), words[2])

\* The value of the first line of the manifest that qualifies, None without one.
ClaimedBundled(fw_versions, pl) ==
    LET q == {k \in 1..Len(fw_versions) : Qualifies(fw_versions[k], pl)}
    IN  IF q = {} THEN None
        ELSE LET first == CHOOSE k \in q : \A h \in q : k <= h
                 words == str_split_ws(fw_versions[first])
             IN  IF Len(words) >= 3 THEN str_strip_ends(words[3]) ELSE <<>>

\* Equal component counts, integer components, and the bundled version not newer.
NotNewer(current_fw, bundled_fw) ==
    /\ NumComponents(current_fw) = NumComponents(bundled_fw)
    /\ WellFormed(current_fw) /\ WellFormed(bundled_fw)
    /\ ~StrictlyNewer(current_fw, bundled_fw)

\* The path run i kept is that of the last match of the walk; without a match it
\* is None and the run has ended with exit code 1 and no updater invoked.
KeptLast(i, kept, mask) ==
    LET at == MatchedAt(env.walk, mask)
    IN  IF at = {}
        THEN kept = None /\ pc[i] = "done" /\ exit_code[i] = 1 /\ calls[i] = <<>>
        ELSE kept = librealsense \o <<"/">> \o str_unix(env.walk[MaxOf(at)])

\* Two product lines that agree on their first two characters.
SameFirstTwo(p, q) ==
    /\ p # Unset /\ q # Unset
    /\ Len(p) >= 2 /\ Len(q) >= 2
    /\ p[1] = q[1] /\ p[2] = q[2]

(***************************************************************************)
(* C1.  For two version strings with the same number of components, all    *)
(* of them integers, has_newer_fw returns True exactly when the bundled    *)
(* version is greater at the first pair of components that differ as       *)
(* integers, and False otherwise; on two equal versions it returns False.  *)
(***************************************************************************)
C1_NewerIffGreater ==
    \A i \in runs :
        LET cur == current_fw_version[i]
            bun == bundled_fw_version[i]
        IN  (/\ newer[i] # "unset"
             /\ NumComponents(cur) = NumComponents(bun)
             /\ WellFormed(cur) /\ WellFormed(bun))
            => /\ newer[i] = (IF StrictlyNewer(cur, bun) THEN "True" ELSE "False")
               /\ cur = bun => newer[i] = "False"

\* '1.3.0' against the bundled '1.20.0' is found newer.
C1_Witness ==
    /\ current_fw_version[1] = S_1_3_0
    /\ bundled_fw_version[1] = S_1_20_0
    /\ newer[1] = "True"

(***************************************************************************)
(* C2.  When the two version strings have different numbers of components, *)
(* has_newer_fw returns neither True nor False: the run ends with the      *)
(* format error and exit code 1, whatever the components are.              *)
(***************************************************************************)
C2_MismatchIsFatal ==
    \A i \in runs :
        (/\ newer[i] # "unset"
         /\ NumComponents(current_fw_version[i]) # NumComponents(bundled_fw_version[i]))
        => /\ newer[i] = "SystemExit"
           /\ pc[i] = "done"
           /\ outcome[i] = "format_mismatch"
           /\ exit_code[i] = 1

\* '1.3.0' against a bundled '2.1': fatal though 2 is greater than 1.
C2_Witness ==
    /\ current_fw_version[1] = S_1_3_0
    /\ bundled_fw_version[1] = <<"2", ".", "1">>
    /\ newer[1] = "SystemExit"
    /\ exit_code[1] = 1

(***************************************************************************)
(* C3.  For every manifest and product line, get_bundled_fw_version        *)
(* returns the third token, less its first and last character, of the      *)
(* first line whose first token is '#define' and whose second token        *)
(* contains the first two characters of the product line, and None when no *)
(* line qualifies; no other line has any influence.                        *)
(***************************************************************************)
C3_FirstDefineWins ==
    \A i \in runs :
        JustDid(i, "get_bundled")
        => /\ outcome[i] # "IndexError"
           /\ bundled_fw_version[i] = ClaimedBundled(env.fw_versions, product_line[i])

(***************************************************************************)
(* C4.  A path is kept for the updater mask only if its final component is *)
(* exactly 'rs-fw-update.exe', and for the image mask only if its final    *)
(* component is exactly the expected image file name.                      *)
(***************************************************************************)
C4_ExactFileName ==
    \A i \in runs :
        /\ IsPath(fw_updater_exe[i])
           => FinalComponent(fw_updater_exe[i]) = S_rs_fw_update_exe
        /\ IsPath(image_file[i])
           => FinalComponent(image_file[i])
                 = SubSeq(product_line[i], 1, 2) \o S_XX_FW_Image
                      \o bundled_fw_version[i] \o S_bin

(***************************************************************************)
(* C5.  As stated: in every run where the manifest file exists and has an  *)
(* entry for the device's family, exactly one device is attached, and the  *)
(* device's version has as many components as the bundled one, which is    *)
(* not newer, the run ends as a no-op with exit code 0.  What a run never  *)
(* read is not constrained by the run, so a run that has ended is a run of *)
(* every environment that agrees with what it did read.                    *)
(***************************************************************************)
C5_Original ==
    \A i \in runs :
        (/\ pc[i] = "done"
         /\ manifest_isfile[i] = "True"
         /\ sn_list_len[i] \in {-1, 1}
         /\ \/ product_line[i] = Unset
            \/ /\ bundled_fw_version[i] # Unset
               /\ ~not_bundled(bundled_fw_version[i])
               /\ NotNewer(current_fw_version[i], bundled_fw_version[i]))
        => outcome[i] = "up_to_date" /\ exit_code[i] = 0

(***************************************************************************)
(* C5, amended.  In every run where also an updater executable was found:  *)
(* once the manifest exists, the updater is found, one device is attached, *)
(* the lookup has given a bundled version and the versions, of equal       *)
(* component count and compared as integers, show the bundled one not      *)
(* newer, the run has ended as a no-op with exit code 0, without searching *)
(* for an image and without invoking the updater.                          *)
(***************************************************************************)
C5_UpToDateIsNoOp ==
    \A i \in runs :
        (/\ newer[i] # "unset"
         /\ manifest_isfile[i] = "True"
         /\ IsPath(fw_updater_exe[i])
         /\ sn_list_len[i] = 1
         /\ ~not_bundled(bundled_fw_version[i])
         /\ NotNewer(current_fw_version[i], bundled_fw_version[i]))
        => /\ pc[i] = "done"
           /\ outcome[i] = "up_to_date"
           /\ exit_code[i] = 0
           /\ image_file[i] = Unset
           /\ \A k \in 1..Len(ops[i]) : ops[i][k] \notin {"find_image", "run_updater"}
           /\ calls[i] = <<>>

\* The device reports the bundled version itself.
C5_Witness ==
    /\ current_fw_version[1] = S_1_20_0
    /\ bundled_fw_version[1] = S_1_20_0
    /\ pc[1] = "done"
    /\ exit_code[1] = 0

(***************************************************************************)
(* C6.  When the enumeration yields a number of devices other than one,    *)
(* the run ends there with exit code 1: the device is not asked for its    *)
(* version or product line, the manifest is not read, the versions are not *)
(* compared, no image is searched for and the updater is not invoked.      *)
(***************************************************************************)
C6_DeviceCountIsFatal ==
    \A i \in runs :
        (sn_list_len[i] # -1 /\ sn_list_len[i] # 1)
        => /\ pc[i] = "done"
           /\ outcome[i] = "device_count"
           /\ exit_code[i] = 1
           /\ Last(ops[i]) = "query_devices"
           /\ current_fw_version[i] = Unset
           /\ product_line[i] = Unset
           /\ bundled_fw_version[i] = Unset
           /\ newer[i] = "unset"
           /\ image_file[i] = Unset
           /\ calls[i] = <<>>

\* Two devices are attached.
C6_Witness == sn_list_len[1] = 2 /\ pc[1] = "done"

(***************************************************************************)
(* C7.  The updater is invoked at most once, and only in a run where the   *)
(* manifest exists, an updater was found, one device is attached, a        *)
(* bundled version was found, the versions have equal component counts,    *)
(* the bundled one is strictly newer and an image was found; its arguments *)
(* are '-f' and the image path, which lies under the search root.          *)
(***************************************************************************)
C7_UpdaterOnlyWhenNewer ==
    \A i \in runs :
        /\ Len(calls[i]) <= 1
        /\ calls[i] # <<>>
           => /\ manifest_isfile[i] = "True"
              /\ IsPath(fw_updater_exe[i])
              /\ sn_list_len[i] = 1
              /\ bundled_fw_version[i] # Unset
              /\ ~not_bundled(bundled_fw_version[i])
              /\ NumComponents(current_fw_version[i]) = NumComponents(bundled_fw_version[i])
              /\ StrictlyNewer(current_fw_version[i], bundled_fw_version[i])
              /\ IsPath(image_file[i])
              /\ SubSeq(image_file[i], 1, Len(librealsense) + 1) = librealsense \o <<"/">>
              /\ calls[i][1][1] = fw_updater_exe[i]
              /\ Tail(calls[i][1]) = <<S_dash_f, image_file[i]>>

\* The updater has been invoked.
C7_Witness == Len(calls[1]) = 1 /\ pc[1] = "done"

(***************************************************************************)
(* C8.  Every run ends in one of three ways: a no-op with exit code 0, the *)
(* updater launched with exit code 0, or one of the six fatal errors with  *)
(* exit code 1.                                                            *)
(***************************************************************************)
C8_ThreeOutcomes ==
    \A i \in runs :
        pc[i] = "done"
        => \/ /\ outcome[i] \in {"up_to_date", "launched", "unexpected_exception"}
              /\ exit_code[i] = 0
           \/ /\ outcome[i] \in {"no_manifest", "no_updater", "device_count",
                                 "no_bundled", "format_mismatch", "no_image"}
              /\ exit_code[i] = 1

(***************************************************************************)
(* C9.  The path kept for the updater, and for the image, is the last of   *)
(* the matches in traversal order; with no match it is None and the run    *)
(* ends with exit code 1 without invoking the updater.                     *)
(***************************************************************************)
C9_LastMatchWins ==
    \A i \in runs :
        /\ JustDid(i, "find_updater") => KeptLast(i, fw_updater_exe[i], updater_mask)
        /\ JustDid(i, "find_image")
           => KeptLast(i, image_file[i],
                       image_mask(product_line[i], bundled_fw_version[i]))

\* Two images match, and the second one walked is kept.
C9_Witness ==
    /\ JustDid(1, "find_image")
    /\ Len(env.walk) = 2
    /\ MatchedAt(env.walk, image_mask(product_line[1], bundled_fw_version[1])) = {1, 2}
    /\ image_file[1] = librealsense \o <<"/">> \o env.walk[2]
    /\ image_file[1] # librealsense \o <<"/">> \o env.walk[1]

(***************************************************************************)
(* C10.  Two runs given the same inputs, but product lines that differ     *)
(* only after their first two characters, look up the same bundled         *)
(* version, take the same decision, expect the same image file name, pass  *)
(* the same arguments to the updater and end with the same exit code.      *)
(***************************************************************************)
C10_OnlyPrefixMatters ==
    \A i, j \in runs :
        SameFirstTwo(product_line[i], product_line[j])
        => /\ bundled_fw_version[i] = bundled_fw_version[j]
           /\ newer[i] = newer[j]
           /\ (newer[i] = "True"
               => image_name(product_line[i], bundled_fw_version[i])
                    = image_name(product_line[j], bundled_fw_version[j]))
           /\ image_file[i] = image_file[j]
           /\ calls[i] = calls[j]
           /\ pc[i] = pc[j]
           /\ outcome[i] = outcome[j]
           /\ exit_code[i] = exit_code[j]

\* 'D400' and 'D4ZZ' both end with the updater launched.
C10_Witness ==
    /\ runs = {1, 2}
    /\ product_line[1] = S_D400
    /\ product_line[2] = S_D4ZZ
    /\ Len(calls[1]) = 1 /\ Len(calls[2]) = 1
    /\ pc[1] = "done" /\ pc[2] = "done"

====
